---- MODULE Spec2Model ----
(***************************************************************************)
(* Model of scripts/in_container/update_quarantined_test_status.py: the    *)
(* script that reads a JUnit report, parses the quarantine issue's         *)
(* markdown table, merges the run's outcomes into the per-test history,    *)
(* renders the table again and edits the issue.                            *)
(*                                                                         *)
(* Python strings are modelled as sequences of one-character strings, so   *)
(* that splitting, stripping, matching and padding are computed the way    *)
(* the code computes them.                                                 *)
(***************************************************************************)
EXTENDS Integers, Sequences, FiniteSets, TLC

(***************************************************************************)
(* Bounds of the model.                                                    *)
(***************************************************************************)
MaxTests == 2
MaxNumRuns == 2
MaxInvocations == 2
MaxLen == 3
MaxLines == 4

(***************************************************************************)
(* Python string primitives.                                               *)
(***************************************************************************)
Chars(s) == [i \in 1..Len(s) |-> SubSeq(s, i, i)]

Min(a, b) == IF a < b THEN a ELSE b

Max(a, b) == IF a < b THEN b ELSE a

\* s[lo:hi] of Python for lo >= 0: a negative hi counts from the end.
Slice(s, lo, hi) ==
    LET h == IF hi < 0 THEN Max(Len(s) + hi, 0) ELSE Min(hi, Len(s))
    IN  IF h <= lo THEN <<>> ELSE SubSeq(s, lo + 1, h)

\* Python's floor division by two.
FloorHalf(n) == IF n >= 0 THEN n \div 2 ELSE 0 - ((1 - n) \div 2)

\* all(xs) of Python on a list of booleans.
All(xs) == \A i \in 1..Len(xs) : xs[i]

\* Index of the first occurrence of character c in s, 0 when absent.
Find(s, c) ==
    IF \E i \in 1..Len(s) : s[i] = c
    THEN CHOOSE i \in 1..Len(s) : s[i] = c /\ \A j \in 1..(i - 1) : s[j] # c
    ELSE 0

RECURSIVE Split(_, _)
\* s.split(c) for a one-character separator c.
Split(s, c) ==
    LET i == Find(s, c)
    IN  IF i = 0 THEN <<s>>
        ELSE <<SubSeq(s, 1, i - 1)>> \o Split(SubSeq(s, i + 1, Len(s)), c)

\* s.strip(), the blank being the only white space of the model.
Strip(s) ==
    IF \A i \in 1..Len(s) : s[i] = " " THEN <<>>
    ELSE LET a == CHOOSE i \in 1..Len(s) : s[i] # " " /\ \A j \in 1..(i - 1) : s[j] = " "
             b == CHOOSE i \in 1..Len(s) : s[i] # " " /\ \A j \in (i + 1)..Len(s) : s[j] = " "
         IN  SubSeq(s, a, b)

StartsWith(s, p) == Len(s) >= Len(p) /\ SubSeq(s, 1, Len(p)) = p

RECURSIVE Join(_, _)
\* sep.join(parts)
Join(parts, sep) ==
    IF parts = <<>> THEN <<>>
    ELSE IF Len(parts) = 1 THEN parts[1]
    ELSE parts[1] \o sep \o Join(Tail(parts), sep)

Repeat(c, n) == [i \in 1..n |-> c]

\* The characters of the model in code-point order.
AsciiOrder == Chars(" !#$%&'()*+,-./0123456789:;<=>?@ABCDEFGHIJKLMNOPQRSTUVWXYZ[]^_abcdefghijklmnopqrstuvwxyz{|}~")

CodePoint(c) == CHOOSE i \in 1..Len(AsciiOrder) : AsciiOrder[i] = c

RECURSIVE StrLess(_, _)
\* a < b on Python strings (lexicographic by code point).
StrLess(a, b) ==
    IF b = <<>> THEN FALSE
    ELSE IF a = <<>> THEN TRUE
    ELSE IF a[1] = b[1] THEN StrLess(Tail(a), Tail(b))
    ELSE CodePoint(a[1]) < CodePoint(b[1])

(***************************************************************************)
(* Module-level tables.                                                    *)
(***************************************************************************)
DefaultNumRuns == 10

HeavyCheckMark == Chars(":heavy_check_mark:")

CrossMark == Chars(":x:")

\* status_map: the glyphs it knows; a lookup of any other key raises KeyError.
status_map_keys == {HeavyCheckMark, CrossMark}

status_map(value) == value = HeavyCheckMark

reverse_status_map(state) == IF state THEN HeavyCheckMark ELSE CrossMark

EmptyMap == [k \in {} |-> k]

TestResult(test_id, file, name, classname, line, result) ==
    [test_id |-> test_id, file |-> file, name |-> name,
     classname |-> classname, line |-> line, result |-> result]

TestHistory(test_id, name, url, states, comment) ==
    [test_id |-> test_id, name |-> name, url |-> url,
     states |-> states, comment |-> comment]

(***************************************************************************)
(* get_url                                                                 *)
(***************************************************************************)
get_url(result, user, repo) ==
    Chars("[") \o result.name \o Chars("](https://github.com/") \o user
        \o Chars("/") \o repo \o Chars("/blob/main/") \o result.file
        \o Chars("?test_id=") \o result.test_id \o Chars("#L") \o result.line
        \o Chars(")")

(***************************************************************************)
(* A call either returns a value or raises; a result says which.           *)
(***************************************************************************)
Return(v) == [raised |-> FALSE, value |-> v]

Raise == [raised |-> TRUE, value |-> <<>>]

\* None, where the code returns an optional value.
None == [none |-> TRUE]

(***************************************************************************)
(* parse_state_history: it raises the KeyError of an unknown glyph.        *)
(***************************************************************************)
parse_state_history(history_string) ==
    LET history_array == Split(history_string, " ")
        values == SelectSeq(history_array, LAMBDA v : v # <<>>)
    IN  IF \E i \in 1..Len(values) : values[i] \notin status_map_keys
        THEN Raise
        ELSE Return([i \in 1..Len(values) |-> status_map(values[i])])

(***************************************************************************)
(* url_pattern.match: a "[", the characters up to the first "]", "](",     *)
(* the characters up to the first ")", and that ")", anchored at the start *)
(* of the string.  None when there is no match, else the groups.      *)
(***************************************************************************)
url_pattern_match(s) ==
    LET close == Find(s, "]")
    IN  IF Len(s) = 0 \/ s[1] # "[" \/ close = 0 THEN None
        ELSE IF close + 1 > Len(s) \/ s[close + 1] # "(" THEN None
        ELSE LET rest == SubSeq(s, close + 2, Len(s))
                 paren == Find(rest, ")")
             IN  IF paren = 0 THEN None
                 ELSE [group0 |-> SubSeq(s, 1, close + 1 + paren),
                       group1 |-> SubSeq(s, 2, close - 1),
                       group2 |-> SubSeq(rest, 1, paren - 1)]

\* urlsplit(url)[3]: the query, between the first "?" and the fragment.
urlsplit_query(http_url) ==
    LET hash == Find(http_url, "#")
        nofrag == IF hash = 0 THEN http_url ELSE SubSeq(http_url, 1, hash - 1)
        q == Find(nofrag, "?")
    IN  IF q = 0 THEN <<>> ELSE SubSeq(nofrag, q + 1, Len(nofrag))

\* parse_test_history without the try around parse_state_history.
parse_test_history_strict(line) ==
    LET values == Split(line, "|")
    IN  IF Len(values) < 2 THEN Raise
        ELSE LET match_url == url_pattern_match(Strip(values[2]))
             IN  IF match_url = None THEN Return(None)
                 ELSE LET query == Split(urlsplit_query(match_url.group2), "=")
                      IN  IF Len(query) < 2 \/ Len(values) < 4 THEN Raise
                          ELSE LET comment == IF Len(values) >= 6 THEN values[6] ELSE <<>>
                                   parsed == parse_state_history(values[4])
                               IN  IF parsed.raised THEN Raise
                                   ELSE Return(TestHistory(query[2], match_url.group1,
                                                           match_url.group0,
                                                           parsed.value, comment))

(***************************************************************************)
(* parse_test_history: it returns a TestHistory or None, or raises the     *)
(* IndexError of a missing cell or of a query without "=".                 *)
(***************************************************************************)
parse_test_history(line) ==
    LET values == Split(line, "|")
    IN  IF Len(values) < 2 THEN Raise
        ELSE LET match_url == url_pattern_match(Strip(values[2]))
             IN  IF match_url = None THEN Return(None)
                 ELSE LET query == Split(urlsplit_query(match_url.group2), "=")
                      IN  IF Len(query) < 2 THEN Raise
                          ELSE LET comment == IF Len(values) >= 6 THEN values[6] ELSE <<>>
                                   parsed == IF Len(values) < 4 THEN Raise
                                             ELSE parse_state_history(values[4])
                                   states == IF parsed.raised THEN <<>> ELSE parsed.value
                               IN  Return(TestHistory(query[2], match_url.group1,
                                                      match_url.group0, states, comment))

(***************************************************************************)
(* parse_body.  body.splitlines(): the pieces between line feeds, without  *)
(* the empty piece after a final line feed.                                *)
(***************************************************************************)
splitlines(body) ==
    LET pieces == Split(body, "\n")
    IN  IF pieces[Len(pieces)] = <<>> THEN SubSeq(pieces, 1, Len(pieces) - 1)
        ELSE pieces

RECURSIVE parse_lines(_, _, _, _)
\* The loop of parse_body from line i on, with its flag and its map so far.
parse_lines(lines, i, parse, test_history_map) ==
    IF i > Len(lines) THEN test_history_map
    ELSE IF StartsWith(lines[i], Chars("|-"))
         THEN parse_lines(lines, i + 1, TRUE, test_history_map)
    ELSE IF ~parse THEN parse_lines(lines, i + 1, parse, test_history_map)
    ELSE IF ~StartsWith(lines[i], Chars("|")) THEN test_history_map
    ELSE LET status == parse_test_history(lines[i])
         IN  IF status.raised \/ status.value = None
             THEN parse_lines(lines, i + 1, parse, test_history_map)
             ELSE parse_lines(lines, i + 1, parse,
                      [k \in DOMAIN test_history_map \cup {status.value.test_id} |->
                          IF k = status.value.test_id THEN status.value
                          ELSE test_history_map[k]])

parse_body(body) == parse_lines(splitlines(body), 1, FALSE, EmptyMap)

(***************************************************************************)
(* update_test_history, create_test_history                                *)
(***************************************************************************)
\* update_test_history adding the new status at the end of the list.
update_test_history_append(history, last_status, num_runs) ==
    TestHistory(history.test_id, history.name, history.url,
                Slice(history.states \o <<last_status>>, 0, num_runs),
                history.comment)

\* update_test_history losing the comment.
update_test_history_nocomment(history, last_status, num_runs) ==
    TestHistory(history.test_id, history.name, history.url,
                Slice(<<last_status>> \o history.states, 0, num_runs), <<>>)

update_test_history(history, last_status, num_runs) ==
    TestHistory(history.test_id, history.name, history.url,
                Slice(<<last_status>> \o history.states, 0, num_runs),
                history.comment)

create_test_history(result, user, repo) ==
    TestHistory(result.test_id, result.name, get_url(result, user, repo),
                <<result.result>>, <<>>)

(***************************************************************************)
(* get_history_status                                                      *)
(***************************************************************************)
\* get_history_status rounding the half of num_runs up.
get_history_status_ceil(history, num_runs) ==
    IF Len(history.states) < num_runs
    THEN IF All(history.states) THEN "So far, so good" ELSE "Flaky"
    ELSE IF All(history.states) THEN "Stable"
    ELSE IF All(Slice(history.states, 0, num_runs - 1)) THEN "Just one more"
    ELSE IF All(Slice(history.states, 0, FloorHalf(num_runs + 1))) THEN "Almost there"
    ELSE "Flaky"

\* get_history_status reading the list oldest-first.
get_history_status_oldest(history, num_runs) ==
    LET n == Len(history.states)
        newest(k) == IF k <= 0 THEN <<>>
                     ELSE SubSeq(history.states, Max(n - k + 1, 1), n)
    IN  IF n < num_runs
        THEN IF All(history.states) THEN "So far, so good" ELSE "Flaky"
        ELSE IF All(history.states) THEN "Stable"
        ELSE IF All(newest(num_runs - 1)) THEN "Just one more"
        ELSE IF All(newest(FloorHalf(num_runs))) THEN "Almost there"
        ELSE "Flaky"

get_history_status(history, num_runs) ==
    IF Len(history.states) < num_runs
    THEN IF All(history.states) THEN "So far, so good" ELSE "Flaky"
    ELSE IF All(history.states) THEN "Stable"
    ELSE IF All(Slice(history.states, 0, num_runs - 1)) THEN "Just one more"
    ELSE IF All(Slice(history.states, 0, FloorHalf(num_runs))) THEN "Almost there"
    ELSE "Flaky"

(***************************************************************************)
(* get_table.  tabulate(the_table, headers, tablefmt="github") strips each *)
(* cell, pads it on the right to the width of its column (a header counts  *)
(* two more than its length), puts a blank on each side and "|" between    *)
(* and around the cells; a line of dashes follows the header line.         *)
(***************************************************************************)
Digits == Chars("0123456789")

RECURSIVE NatToStr(_)
NatToStr(n) ==
    IF n < 10 THEN <<Digits[n + 1]>>
    ELSE NatToStr(n \div 10) \o <<Digits[(n % 10) + 1]>>

\* str(n) for an int.
IntToStr(n) == IF n < 0 THEN <<"-">> \o NatToStr(0 - n) ELSE NatToStr(n)

RECURSIVE sorted_keys(_)
\* sorted(keys): the strings of a set in ascending order.
sorted_keys(keys) ==
    IF keys = {} THEN <<>>
    ELSE LET least == CHOOSE k \in keys : \A o \in keys \ {k} : StrLess(k, o)
         IN  <<least>> \o sorted_keys(keys \ {least})

table_headers(num_runs) ==
    <<Chars("Test"), Chars("Last run"),
      Chars("Last ") \o IntToStr(num_runs) \o Chars(" runs"),
      Chars("Status"), Chars("Comment")>>

table_row(history, num_runs) ==
    <<history.url,
      IF history.states[1] THEN Chars("Succeeded") ELSE Chars("Failed"),
      Join([i \in 1..Len(history.states) |-> reverse_status_map(history.states[i])],
           Chars(" ")),
      Chars(get_history_status(history, num_runs)),
      history.comment>>

tabulate_line(cells, widths) ==
    Chars("|")
        \o Join([c \in 1..Len(cells) |->
                    Chars(" ") \o cells[c]
                        \o Repeat(" ", widths[c] - Len(cells[c])) \o Chars(" ")],
                Chars("|"))
        \o Chars("|")

tabulate(the_table, headers) ==
    LET rows == [r \in 1..Len(the_table) |->
                    [c \in 1..Len(headers) |-> Strip(the_table[r][c])]]
        SetMax(S) == CHOOSE m \in S : \A o \in S : o <= m
        widths == [c \in 1..Len(headers) |->
                      SetMax({Len(headers[c]) + 2}
                                 \cup {Len(rows[r][c]) : r \in 1..Len(rows)})]
        rule == Chars("|")
                    \o Join([c \in 1..Len(headers) |-> Repeat("-", widths[c] + 2)],
                            Chars("|"))
                    \o Chars("|")
    IN  Join(<<tabulate_line(headers, widths), rule>>
                 \o [r \in 1..Len(rows) |-> tabulate_line(rows[r], widths)],
             Chars("\n"))

\* It raises the IndexError of history.states[0] on an empty list.
get_table(history_map, num_runs) ==
    LET keys == sorted_keys(DOMAIN history_map)
    IN  IF \E k \in DOMAIN history_map : history_map[k].states = <<>>
        THEN Raise
        ELSE Return(tabulate([r \in 1..Len(keys) |->
                                 table_row(history_map[keys[r]], num_runs)],
                             table_headers(num_runs)))

(***************************************************************************)
(* The report reader (the loop over the test cases of the first suite).    *)
(* A test case is its attributes and the names of its child nodes; the     *)
(* name of a text node is "#text" here (None in the code).                 *)
(***************************************************************************)
read_testcase(test) ==
    IF test.contents # <<>> /\ test.contents[1] = "skipped" THEN <<>>
    ELSE <<TestResult(test.classname \o Chars("::") \o test.name, test.file,
                      test.name, test.classname, test.line, test.contents = <<>>)>>

RECURSIVE read_testcases(_)
read_testcases(res) ==
    IF res = <<>> THEN <<>>
    ELSE read_testcase(Head(res)) \o read_testcases(Tail(res))

(***************************************************************************)
(* One iteration of the merge loop.                                        *)
(***************************************************************************)
MapSet(map, key, value) ==
    [k \in DOMAIN map \cup {key} |-> IF k = key THEN value ELSE map[k]]

\* merge_result carrying the prior history forward into the new map.
merge_result_carry(new_map, parsed_map, test_result, num_runs, user, repo) ==
    LET base == [k \in DOMAIN parsed_map \cup DOMAIN new_map |->
                    IF k \in DOMAIN new_map THEN new_map[k] ELSE parsed_map[k]]
    IN  IF test_result.test_id \in DOMAIN parsed_map
        THEN MapSet(base, test_result.test_id,
                    update_test_history(parsed_map[test_result.test_id],
                                        test_result.result, num_runs))
        ELSE MapSet(base, test_result.test_id,
                    create_test_history(test_result, user, repo))

\* merge_result leaving the loop after the first outcome.
merge_result_first(new_map, parsed_map, test_result, num_runs, user, repo) ==
    IF new_map # EmptyMap THEN new_map
    ELSE IF test_result.test_id \in DOMAIN parsed_map
    THEN MapSet(new_map, test_result.test_id,
                update_test_history(parsed_map[test_result.test_id],
                                    test_result.result, num_runs))
    ELSE MapSet(new_map, test_result.test_id,
                create_test_history(test_result, user, repo))

merge_result(new_map, parsed_map, test_result, num_runs, user, repo) ==
    IF test_result.test_id \in DOMAIN parsed_map
    THEN LET previous_results == parsed_map[test_result.test_id]
             updated_results == update_test_history(previous_results,
                                                    test_result.result, num_runs)
         IN  MapSet(new_map, previous_results.test_id, updated_results)
    ELSE LET new_history == create_test_history(test_result, user, repo)
         IN  MapSet(new_map, new_history.test_id, new_history)

(***************************************************************************)
(* The inputs of an invocation.                                            *)
(***************************************************************************)
SeqsUpTo(S, n) == UNION {[1..m -> S] : m \in 0..n}

ClassName == Chars("A")

FileName == Chars("f.py")

LineNo == Chars("7")

TestNames == {Chars("t1"), Chars("t[p]")}

\* passed; failed; skipped; a text node, then the skipped marker.
ContentsChoices == {<<>>, <<"failure">>, <<"skipped">>, <<"#text", "skipped">>}

TestCase(name, contents) ==
    [classname |-> ClassName, name |-> name, file |-> FileName, line |-> LineNo,
     contents |-> contents]

TestCases == {TestCase(n, c) : n \in TestNames, c \in ContentsChoices}

NoReport == [testsuites |-> FALSE, testsuite |-> FALSE, testcases |-> <<>>]

SuiteOf(testcases) ==
    [testsuites |-> TRUE, testsuite |-> TRUE, testcases |-> testcases]

Reports ==
    {NoReport, [testsuites |-> TRUE, testsuite |-> FALSE, testcases |-> <<>>]}
        \cup {SuiteOf(t) : t \in SeqsUpTo(TestCases, MaxTests)}

\* GITHUB_REPOSITORY: unset, without a slash, owner/name.
RepositoryChoices == {<<>>, Chars("ur"), Chars("u/r")}

\* NUM_RUNS: any integer the environment gives, or the default when unset.
NumRunsChoices == ((0 - 1)..MaxNumRuns) \cup {DefaultNumRuns}

\* The text of the rendered header template.
Header == Chars("Quarantined tests")

TestId(name) == ClassName \o Chars("::") \o name

PriorUrl(name) ==
    get_url(TestResult(TestId(name), FileName, name, ClassName, LineNo, TRUE),
            Chars("u"), Chars("r"))

Glyphs(states) ==
    Join([i \in 1..Len(states) |-> reverse_status_map(states[i])], Chars(" "))

\* A table row as a person writes it: no padding, any cells.
IssueRow(cells) == Chars("|") \o Join(cells, Chars("|")) \o Chars("|")

\* The issue body a run with the default NUM_RUNS wrote: nine passes of t1.
WrittenBody ==
    Header \o Chars("\n\n")
        \o get_table([k \in {TestId(Chars("t1"))} |->
                         TestHistory(k, Chars("t1"), PriorUrl(Chars("t1")),
                                     [i \in 1..(DefaultNumRuns - 1) |-> TRUE], <<>>)],
                     DefaultNumRuns).value

\* An issue body edited by hand: a comment, and a row with an unknown glyph.
EditedBody ==
    Join(<<Chars("|-|"),
           IssueRow(<<PriorUrl(Chars("t1")), Chars("Failed"),
                      Glyphs(<<FALSE, TRUE, TRUE>>), Chars("Flaky"), Chars("WIP")>>),
           IssueRow(<<PriorUrl(Chars("t2")), Chars("Failed"), Chars(":o:"),
                      Chars("Flaky")>>)>>,
         Chars("\n"))

InitialBodies == {<<>>, WrittenBody, EditedBody}

(***************************************************************************)
(* The state of the script and of the issue it edits.                      *)
(***************************************************************************)
VARIABLES
    pc,                \* position of the running script
    invocation,        \* how many times the script has been started
    report,            \* the parsed report document
    test_results,
    user,
    repo,
    issue_id,
    num_runs,
    parsed_test_map,
    new_test_map,
    idx,               \* position of the merge loop in test_results
    statuses,          \* the Status column: get_history_status of each record
    table,
    exit_code,         \* exit status once pc is "done" or "failed"
    edits,             \* calls of quarantined_issue.edit by this invocation
    body,              \* the issue's body
    issue_state        \* the issue's state

vars == <<pc, invocation, report, test_results, user, repo, issue_id, num_runs,
          parsed_test_map, new_test_map, idx, statuses, table, exit_code, edits,
          body, issue_state>>

\* The module-level values at the start of a process.
ProcessStart ==
    /\ pc = "args"
    /\ report = NoReport
    /\ test_results = <<>>
    /\ user = <<>>
    /\ repo = <<>>
    /\ issue_id = 0
    /\ num_runs = DefaultNumRuns
    /\ parsed_test_map = EmptyMap
    /\ new_test_map = EmptyMap
    /\ idx = 0
    /\ statuses = EmptyMap
    /\ table = <<>>
    /\ exit_code = 0
    /\ edits = 0

Init ==
    /\ ProcessStart
    /\ invocation = 1
    /\ body \in InitialBodies
    /\ issue_state = "open"

\* sys.exit(1), or an exception that nothing catches.
Fail ==
    /\ pc' = "failed"
    /\ exit_code' = 1

\* len(sys.argv) < 2
CheckArgsOf(argcs) ==
    /\ pc = "args"
    /\ \E argc \in argcs :
          IF argc < 2 THEN Fail ELSE pc' = "report" /\ UNCHANGED exit_code
    /\ UNCHANGED <<invocation, report, test_results, user, repo, issue_id,
                   num_runs, parsed_test_map, new_test_map, idx, statuses, table,
                   edits, body, issue_state>>

\* Reading the report: the suite checks and the loop over the test cases.
ReadReportOf(reports) ==
    /\ pc = "report"
    /\ \E r \in reports :
          /\ report' = r
          /\ IF ~r.testsuites \/ ~r.testsuite
             THEN Fail /\ UNCHANGED test_results
             ELSE /\ test_results' = read_testcases(r.testcases)
                  /\ pc' = "config"
                  /\ UNCHANGED exit_code
    /\ UNCHANGED <<invocation, user, repo, issue_id, num_runs, parsed_test_map,
                   new_test_map, idx, statuses, table, edits, body, issue_state>>

\* The environment: GITHUB_REPOSITORY, ISSUE_ID, NUM_RUNS.
ConfigureOf(repositories, issue_ids, runs) ==
    /\ pc = "config"
    /\ \E github_repository \in repositories :
          IF github_repository = <<>> \/ Len(Split(github_repository, "/")) # 2
          THEN Fail /\ UNCHANGED <<user, repo, issue_id, num_runs>>
          ELSE \E id \in issue_ids, n \in runs :
                  /\ user' = Split(github_repository, "/")[1]
                  /\ repo' = Split(github_repository, "/")[2]
                  /\ issue_id' = id
                  /\ num_runs' = n
                  /\ IF id = 0 THEN Fail
                     ELSE pc' = "fetch" /\ UNCHANGED exit_code
    /\ UNCHANGED <<invocation, report, test_results, parsed_test_map,
                   new_test_map, idx, statuses, table, edits, body, issue_state>>

\* gh.issue(...), parse_body(quarantined_issue.body), new_test_map = {}
FetchAndParse ==
    /\ pc = "fetch"
    /\ parsed_test_map' = parse_body(body)
    /\ new_test_map' = EmptyMap
    /\ idx' = 1
    /\ pc' = "merge"
    /\ UNCHANGED <<invocation, report, test_results, user, repo, issue_id,
                   num_runs, statuses, table, exit_code, edits, body, issue_state>>

\* One iteration of "for test_result in test_results".
MergeStep ==
    /\ pc = "merge"
    /\ idx <= Len(test_results)
    /\ new_test_map' = merge_result(new_test_map, parsed_test_map,
                                    test_results[idx], num_runs, user, repo)
    /\ idx' = idx + 1
    /\ UNCHANGED <<pc, invocation, report, test_results, user, repo, issue_id,
                   num_runs, parsed_test_map, statuses, table, exit_code, edits,
                   body, issue_state>>

\* table = get_table(new_test_map)
Render ==
    /\ pc = "merge"
    /\ idx > Len(test_results)
    /\ LET t == get_table(new_test_map, num_runs)
       IN  IF t.raised THEN Fail /\ UNCHANGED <<table, statuses>>
           ELSE /\ table' = t.value
                /\ statuses' = [k \in DOMAIN new_test_map |->
                                   get_history_status(new_test_map[k], num_runs)]
                /\ pc' = "edit"
                /\ UNCHANGED exit_code
    /\ UNCHANGED <<invocation, report, test_results, user, repo, issue_id,
                   num_runs, parsed_test_map, new_test_map, idx, edits, body,
                   issue_state>>

\* EditIssueOf with the edit before the header is rendered.
EditIssueOf_early(renderings) ==
    /\ pc = "edit"
    /\ \E header_renders \in renderings :
          /\ body' = Header \o Chars("\n\n") \o table
          /\ issue_state' = IF test_results # <<>> THEN "open" ELSE "closed"
          /\ edits' = edits + 1
          /\ IF ~header_renders THEN Fail
             ELSE pc' = "done" /\ UNCHANGED exit_code
    /\ UNCHANGED <<invocation, report, test_results, user, repo, issue_id,
                   num_runs, parsed_test_map, new_test_map, idx, statuses, table>>

\* The header template is rendered (strictly), then the issue is edited.
EditIssueOf(renderings) ==
    /\ pc = "edit"
    /\ \E header_renders \in renderings :
          IF ~header_renders
          THEN Fail /\ UNCHANGED <<body, issue_state, edits>>
          ELSE /\ body' = Header \o Chars("\n\n") \o table
               /\ issue_state' = IF test_results # <<>> THEN "open" ELSE "closed"
               /\ edits' = edits + 1
               /\ pc' = "done"
               /\ UNCHANGED exit_code
    /\ UNCHANGED <<invocation, report, test_results, user, repo, issue_id,
                   num_runs, parsed_test_map, new_test_map, idx, statuses, table>>

CheckArgs == CheckArgsOf({1, 2})

ReadReport == ReadReportOf(Reports)

Configure == ConfigureOf(RepositoryChoices, {0, 1}, NumRunsChoices)

EditIssue == EditIssueOf(BOOLEAN)

Next ==
    \/ CheckArgs
    \/ ReadReport
    \/ Configure
    \/ FetchAndParse
    \/ MergeStep
    \/ Render
    \/ EditIssue

Spec == Init /\ [][Next]_vars

(***************************************************************************)
(* SpecHistory: the script started again and again on the issue it edits,  *)
(* each run reporting the one test t1 as passed or failed, from an issue   *)
(* whose row of t1 has any history of up to MaxLen runs.                   *)
(***************************************************************************)
\* The next CI run starts the script again, on the issue as it is now.
StartAgain ==
    /\ pc \in {"done", "failed"}
    /\ invocation < MaxInvocations
    /\ invocation' = invocation + 1
    /\ pc' = "args"
    /\ report' = NoReport
    /\ test_results' = <<>>
    /\ user' = <<>>
    /\ repo' = <<>>
    /\ issue_id' = 0
    /\ num_runs' = DefaultNumRuns
    /\ parsed_test_map' = EmptyMap
    /\ new_test_map' = EmptyMap
    /\ idx' = 0
    /\ statuses' = EmptyMap
    /\ table' = <<>>
    /\ exit_code' = 0
    /\ edits' = 0
    /\ UNCHANGED <<body, issue_state>>

HistoryBodies ==
    {<<>>} \cup
    {Join(<<Chars("|-|"),
            IssueRow(<<PriorUrl(Chars("t1")), Chars("Failed"), Glyphs(h),
                       Chars("Flaky"), Chars("WIP")>>)>>, Chars("\n")) :
         h \in SeqsUpTo(BOOLEAN, MaxLen)}

OneTestReports ==
    {SuiteOf(<<TestCase(Chars("t1"), c)>>) : c \in {<<>>, <<"failure">>}}

InitHistory ==
    /\ ProcessStart
    /\ invocation = 1
    /\ body \in HistoryBodies
    /\ issue_state = "open"

NextHistory ==
    \/ CheckArgsOf({2})
    \/ ReadReportOf(OneTestReports)
    \/ ConfigureOf({Chars("u/r")}, {1}, NumRunsChoices)
    \/ FetchAndParse
    \/ MergeStep
    \/ Render
    \/ EditIssueOf({TRUE})
    \/ StartAgain

SpecHistory == InitHistory /\ [][NextHistory]_vars

(***************************************************************************)
(* SpecClassify: get_history_status applied to any history of up to MaxLen *)
(* runs under any num_runs from -2 to MaxLen + 1 and the default.          *)
(***************************************************************************)
ClassifyRuns == ((0 - 2)..(MaxLen + 1)) \cup {DefaultNumRuns}

InitClassify ==
    /\ pc = "classify"
    /\ num_runs \in ClassifyRuns
    /\ \E h \in SeqsUpTo(BOOLEAN, MaxLen) :
          new_test_map = [k \in {TestId(Chars("t1"))} |->
                             TestHistory(k, Chars("t1"), PriorUrl(Chars("t1")),
                                         h, <<>>)]
    /\ invocation = 1
    /\ report = NoReport
    /\ test_results = <<>>
    /\ user = <<>>
    /\ repo = <<>>
    /\ issue_id = 0
    /\ parsed_test_map = EmptyMap
    /\ idx = 0
    /\ statuses = EmptyMap
    /\ table = <<>>
    /\ exit_code = 0
    /\ edits = 0
    /\ body = <<>>
    /\ issue_state = "open"

Classify ==
    /\ pc = "classify"
    /\ statuses' = [k \in DOMAIN new_test_map |->
                       get_history_status(new_test_map[k], num_runs)]
    /\ pc' = "classified"
    /\ UNCHANGED <<invocation, report, test_results, user, repo, issue_id,
                   num_runs, parsed_test_map, new_test_map, idx, table,
                   exit_code, edits, body, issue_state>>

SpecClassify == InitClassify /\ [][Classify]_vars

(***************************************************************************)
(* SpecParse: parse_body applied to issue bodies of up to MaxLines lines,  *)
(* each line one of the kinds below.                                       *)
(***************************************************************************)
LineKinds ==
    {"rule", "good1", "good2", "nolink", "noquery", "few", "glyph", "text"}

LineText(kind) ==
    CASE kind = "rule" -> Chars("|----|")
      [] kind = "good1" ->
            IssueRow(<<Chars(" ") \o PriorUrl(Chars("t1")) \o Chars("  "),
                       Chars(" Failed "), Chars(" ") \o Glyphs(<<FALSE, TRUE>>),
                       Chars(" Flaky "), Chars(" WIP ")>>)
      [] kind = "good2" ->
            IssueRow(<<PriorUrl(Chars("t2")), Chars("Succeeded"),
                       Glyphs(<<TRUE>>), Chars("So far, so good"), <<>>>>)
      [] kind = "nolink" ->
            IssueRow(<<Chars("t3"), Chars("Succeeded"), Glyphs(<<TRUE>>),
                       Chars("So far, so good"), <<>>>>)
      [] kind = "noquery" ->
            IssueRow(<<Chars("[t4](https://github.com/u/r/blob/main/f.py#L7)"),
                       Chars("Succeeded"), Glyphs(<<TRUE>>),
                       Chars("So far, so good"), <<>>>>)
      [] kind = "few" -> IssueRow(<<PriorUrl(Chars("t5"))>>)
      [] kind = "glyph" ->
            IssueRow(<<PriorUrl(Chars("t1")), Chars("Failed"),
                       Chars(":heavy_check_mark: :o:"), Chars("Flaky"),
                       Chars("x")>>)
      [] OTHER -> Chars("Notes")

ParseBodies ==
    {Join([i \in 1..Len(ks) |-> LineText(ks[i])], Chars("\n")) :
         ks \in SeqsUpTo(LineKinds, MaxLines)}

InitParse ==
    /\ pc = "fetch"
    /\ body \in ParseBodies
    /\ invocation = 1
    /\ report = NoReport
    /\ test_results = <<>>
    /\ user = Chars("u")
    /\ repo = Chars("r")
    /\ issue_id = 1
    /\ num_runs = DefaultNumRuns
    /\ parsed_test_map = EmptyMap
    /\ new_test_map = EmptyMap
    /\ idx = 0
    /\ statuses = EmptyMap
    /\ table = <<>>
    /\ exit_code = 0
    /\ edits = 0
    /\ issue_state = "open"

SpecParse == InitParse /\ [][FetchAndParse]_vars

(***************************************************************************)
(* Properties of one invocation (Spec).                                    *)
(***************************************************************************)
\* The first n elements of s, as the prose of the design has it.
Take(s, n) == [i \in 1..Min(Max(n, 0), Len(s)) |-> s[i]]

Ids(results) == {results[i].test_id : i \in 1..Len(results)}

\* The merge loop has run to its end.
MergeDone ==
    \/ pc \in {"edit", "done"}
    \/ pc = "merge" /\ idx > Len(test_results)

RECURSIVE MergeAll(_, _)
\* The merge loop run on the outcomes in the given order.
MergeAll(results, map) ==
    IF results = <<>> THEN map
    ELSE MergeAll(Tail(results),
                  merge_result(map, parsed_test_map, Head(results), num_runs,
                               user, repo))

Reordered(results, p) == [i \in 1..Len(results) |-> results[p[i]]]

\* C4: once the merge loop has ended, the keys of the merged mapping are
\* exactly the test_ids of the run's outcomes, no test_id that is only in the
\* prior history is a key, and every key maps to the record of that test_id.
C4_DropOnAbsence ==
    MergeDone =>
        /\ DOMAIN new_test_map = Ids(test_results)
        /\ \A k \in DOMAIN parsed_test_map \ Ids(test_results) :
              k \notin DOMAIN new_test_map
        /\ \A k \in DOMAIN new_test_map : new_test_map[k].test_id = k

C4_Witness ==
    /\ MergeDone
    /\ new_test_map # EmptyMap
    /\ \E k \in DOMAIN parsed_test_map : k \notin DOMAIN new_test_map
    /\ \E k \in DOMAIN parsed_test_map : k \in DOMAIN new_test_map

\* The record the merge loop stored for the outcome it processed last.
LastMerged == new_test_map[test_results[idx - 1].test_id]

MergedAsClaimed ==
    LET outcome == test_results[idx - 1]
    IN  IF outcome.test_id \in DOMAIN parsed_test_map
        THEN LET prior == parsed_test_map[outcome.test_id]
             IN  /\ LastMerged.states = Take(<<outcome.result>> \o prior.states, num_runs)
                 /\ LastMerged.test_id = prior.test_id
                 /\ LastMerged.name = prior.name
                 /\ LastMerged.url = prior.url
                 /\ LastMerged.comment = prior.comment
        ELSE /\ LastMerged.states = <<outcome.result>>
             /\ LastMerged.url =
                    Chars("[") \o outcome.name \o Chars("](https://github.com/")
                        \o user \o Chars("/") \o repo \o Chars("/blob/main/")
                        \o outcome.file \o Chars("?test_id=") \o outcome.test_id
                        \o Chars("#L") \o outcome.line \o Chars(")")
             /\ LastMerged.comment = <<>>

\* C5 as stated: after each iteration of the merge loop, the record of an
\* outcome whose test_id is in the prior history has states = the first
\* num_runs elements of [passed] + prior.states and the prior record's test_id,
\* name, url and comment; the record of any other outcome has states =
\* [passed], a freshly built url and an empty comment.
C5_AsStated ==
    (pc # "failed" /\ idx >= 2) =>
        MergedAsClaimed

\* C5 amended: the same for num_runs >= 0 (a negative num_runs is a slice
\* bound counted from the end: it drops the last -num_runs elements).
C5_MergeFrame ==
    (pc # "failed" /\ idx >= 2 /\ num_runs >= 0) =>
        MergedAsClaimed

C5_Witness ==
    /\ pc = "merge"
    /\ idx >= 2
    /\ num_runs >= 1
    /\ test_results[idx - 1].test_id \in DOMAIN parsed_test_map
    /\ Len(parsed_test_map[test_results[idx - 1].test_id].states) >= num_runs
    /\ parsed_test_map[test_results[idx - 1].test_id].comment # <<>>

\* C7: a run that ends with a fatal error exits with a non-zero status
\* without having edited the issue; the edit happens at most once, and when
\* it has happened the run is over.
C7_NoPartialWrite ==
    /\ [](/\ pc = "failed" => exit_code # 0 /\ edits = 0
          /\ edits <= 1
          /\ edits = 1 => pc = "done" /\ exit_code = 0)
    /\ [][(body' # body \/ issue_state' # issue_state \/ edits' # edits)
              => (pc = "edit" /\ pc' = "done" /\ edits' = edits + 1)]_vars

C7_Witness ==
    /\ pc = "failed"
    /\ test_results # <<>>
    /\ user # <<>>
    /\ issue_id = 0

\* C8 as stated: a test case with any child "skipped" marker produces no
\* outcome: the outcomes are those of the test cases without such a child.
C8_SkipExclusion ==
    pc = "config" =>
        Len(test_results) =
            Cardinality({i \in 1..Len(report.testcases) :
                            \A j \in 1..Len(report.testcases[i].contents) :
                                report.testcases[i].contents[j] # "skipped"})

\* C9 as stated: with num_runs = 10, a prior history of nine passes and a
\* failing run give the merged states [false] + nine trues, labelled
\* "Just one more".
NineTrues == [i \in 1..9 |-> TRUE]

C9_Scenario(id) ==
    /\ pc \in {"edit", "done"}
    /\ num_runs = 10
    /\ id \in DOMAIN parsed_test_map
    /\ parsed_test_map[id].states = NineTrues
    /\ id \in Ids(test_results)
    /\ \A i \in 1..Len(test_results) :
          test_results[i].test_id = id => ~test_results[i].result

C9_AsStated ==
    \A id \in DOMAIN new_test_map :
        C9_Scenario(id) =>
            /\ new_test_map[id].states = <<FALSE>> \o NineTrues
            /\ statuses[id] = "Just one more"

\* C9 amended: in that scenario the merged states are [false] + nine trues
\* (length 10, not all true) and the label is "Flaky": the failure is the
\* first of the first nine entries.
C9_FailAfterNinePasses ==
    \A id \in DOMAIN new_test_map :
        C9_Scenario(id) =>
            /\ new_test_map[id].states = <<FALSE>> \o NineTrues
            /\ Len(new_test_map[id].states) = 10
            /\ statuses[id] = "Flaky"

C9_Witness == \E id \in DOMAIN new_test_map : C9_Scenario(id)

\* C10 as stated (for a window of at least one run): processing the outcomes
\* in any order gives the same merged mapping, also when a test_id occurs
\* more than once.
C10_AsStated ==
    (MergeDone /\ num_runs >= 1) =>
        \A p \in Permutations(1..Len(test_results)) :
            MergeAll(Reordered(test_results, p), EmptyMap) = new_test_map

DistinctIds(results) == Cardinality(Ids(results)) = Len(results)

\* C10 amended: when the test_ids of the outcomes are pairwise distinct,
\* processing the outcomes in any order gives the same merged mapping (of
\* two outcomes with one test_id the later one wins).
C10_OrderIndependence ==
    (MergeDone /\ DistinctIds(test_results)) =>
        \A p \in Permutations(1..Len(test_results)) :
            MergeAll(Reordered(test_results, p), EmptyMap) = new_test_map

C10_Witness ==
    /\ MergeDone
    /\ Len(test_results) >= 2
    /\ DistinctIds(test_results)
    /\ \E k \in DOMAIN new_test_map : k \in DOMAIN parsed_test_map
    /\ \E k \in DOMAIN new_test_map : k \notin DOMAIN parsed_test_map

\* C2 as stated (for a window of at least one run): the parser reads the
\* rendered table back to the merged mapping, on test_id, name, url, states
\* and comment.
C2_RoundTrip ==
    (pc = "edit" /\ num_runs >= 1) =>
        LET parsed == parse_body(table)
        IN  /\ DOMAIN parsed = DOMAIN new_test_map
            /\ \A k \in DOMAIN parsed :
                  /\ parsed[k].test_id = new_test_map[k].test_id
                  /\ parsed[k].name = new_test_map[k].name
                  /\ parsed[k].url = new_test_map[k].url
                  /\ parsed[k].states = new_test_map[k].states
                  /\ parsed[k].comment = new_test_map[k].comment

(***************************************************************************)
(* Properties of the history over several runs (SpecHistory).              *)
(***************************************************************************)
\* The result of the last outcome of the run that carries the test_id.
LastOutcome(id) ==
    LET i == CHOOSE i \in 1..Len(test_results) :
                 /\ test_results[i].test_id = id
                 /\ \A j \in (i + 1)..Len(test_results) : test_results[j].test_id # id
    IN  test_results[i].result

WindowHolds ==
    \A k \in DOMAIN new_test_map :
        /\ Len(new_test_map[k].states) <= num_runs
        /\ Len(new_test_map[k].states) >= 1
        /\ new_test_map[k].states[1] = LastOutcome(k)

\* C1 as stated: for every num_runs and every prior history, after the merge
\* of a run a record's states has at most num_runs elements and starts with
\* the outcome merged last.
C1_AsStated == MergeDone => WindowHolds

\* C1 amended: the same for every num_runs >= 1 (with num_runs = 0 a new
\* record has one state and an updated one none; a negative num_runs keeps
\* all but the last -num_runs states).
C1_WindowBound == (MergeDone /\ num_runs >= 1) => WindowHolds

C1_Witness ==
    /\ MergeDone
    /\ invocation >= 2
    /\ num_runs >= 1
    /\ StartsWith(body, Header)
    /\ \E k \in DOMAIN new_test_map :
          /\ k \in DOMAIN parsed_test_map
          /\ Len(parsed_test_map[k].states) > num_runs

(***************************************************************************)
(* Properties of the classifier (SpecClassify).                            *)
(***************************************************************************)
Labels == {"So far, so good", "Flaky", "Stable", "Just one more", "Almost there"}

\* The label by the rules of the design, first match first.
ClaimedStatus(states, n) ==
    LET FirstTrue(k) == \A i \in 1..Len(states) : i <= k => states[i]
    IN  IF Len(states) < n
        THEN IF FirstTrue(Len(states)) THEN "So far, so good" ELSE "Flaky"
        ELSE IF FirstTrue(Len(states)) THEN "Stable"
        ELSE IF FirstTrue(n - 1) THEN "Just one more"
        ELSE IF FirstTrue(n \div 2) THEN "Almost there"
        ELSE "Flaky"

Classified ==
    \A k \in DOMAIN new_test_map :
        /\ k \in DOMAIN statuses
        /\ statuses[k] \in Labels
        /\ statuses[k] = ClaimedStatus(new_test_map[k].states, num_runs)

\* C3 as stated: for every states sequence and every num_runs the label is
\* the one of the first matching rule: shorter than num_runs, all true,
\* first num_runs - 1 true, first num_runs // 2 true, else "Flaky".
C3_AsStated == pc = "classified" => Classified

\* C3 amended: the same for every num_runs >= 1 (for num_runs <= 0 the
\* bounds num_runs - 1 and num_runs // 2 are negative and count from the
\* end of the sequence).
C3_Classifier == (pc = "classified" /\ num_runs >= 1) => Classified

C3_Witness ==
    /\ pc = "classified"
    /\ num_runs >= 3
    /\ \E k \in DOMAIN statuses :
          /\ statuses[k] = "Almost there"
          /\ Len(new_test_map[k].states) >= num_runs

(***************************************************************************)
(* Properties of the parser (SpecParse).                                   *)
(***************************************************************************)
\* The kinds of the lines of the issue body.
BodyKinds ==
    IF body = <<>> THEN <<>>
    ELSE LET lines == Split(body, "\n")
         IN  [i \in 1..Len(lines) |->
                 CHOOSE k \in LineKinds : LineText(k) = lines[i]]

\* The lines read as rows: after the first rule, up to the first line that
\* is no row, the rules among them aside.
CapturedRows ==
    LET ks == BodyKinds
    IN  {i \in 1..Len(ks) :
            /\ ks[i] # "rule"
            /\ \E r \in 1..(i - 1) : ks[r] = "rule"
            /\ \A j \in 1..i :
                  (ks[j] = "text") => \A r \in 1..(j - 1) : ks[r] # "rule"}

\* The record a row of each kind stands for.
RowRecord(kind) ==
    CASE kind = "good1" ->
            TestHistory(TestId(Chars("t1")), Chars("t1"), PriorUrl(Chars("t1")),
                        <<FALSE, TRUE>>, Chars(" WIP "))
      [] kind = "good2" ->
            TestHistory(TestId(Chars("t2")), Chars("t2"), PriorUrl(Chars("t2")),
                        <<TRUE>>, <<>>)
      [] kind = "glyph" ->
            TestHistory(TestId(Chars("t1")), Chars("t1"), PriorUrl(Chars("t1")),
                        <<>>, Chars("x"))
      [] kind = "few" ->
            TestHistory(TestId(Chars("t5")), Chars("t5"), PriorUrl(Chars("t5")),
                        <<>>, <<>>)

\* The mapping when the rows of the kinds in kept give their record (the
\* last row of a test_id wins) and every other row is skipped.
RowsKept(kept) ==
    LET ks == BodyKinds
        rows == {i \in CapturedRows : ks[i] \in kept}
        last(id) == CHOOSE i \in rows :
                        /\ RowRecord(ks[i]).test_id = id
                        /\ \A j \in rows : RowRecord(ks[j]).test_id = id => j <= i
    IN  [id \in {RowRecord(ks[i]).test_id : i \in rows} |-> RowRecord(ks[last(id)])]

====
